---- MODULE Spec2Model ----
(***************************************************************************)
(* A model of the bip353 crate: PaymentInstruction::from_uri,              *)
(* Resolver::parse_address, Resolver::resolve and Resolver::resolve_address *)
(* (src/src/lib.rs), and the C binding bip353_resolve (src/src/ffi.rs).    *)
(*                                                                         *)
(* A Rust String is modelled as a sequence of characters; a character is   *)
(* a one-token TLA+ string.  ASCII characters are written as themselves,   *)
(* the non-ASCII ones by their code point ("U+20BF" is the Bitcoin glyph). *)
(* A HashMap<String, String> is a function from keys to values.            *)
(***************************************************************************)
EXTENDS Integers, Sequences, FiniteSets, TLC

VARIABLES pc, call, arg, user, domain, queries, response, bitcoin_uris, result,
          resolver, calls, ffi

vars == <<pc, call, arg, user, domain, queries, response, bitcoin_uris, result,
          resolver, calls, ffi>>

(***************************************************************************)
(* Characters                                                              *)
(***************************************************************************)
BitcoinGlyph == "U+20BF"
CapitalIDot == "U+0130"
CombiningDot == "U+0307"
ReplacementChar == "U+FFFD"
InvalidByte == "0xFF"
NulChar == "U+0000"

UpperLetters ==
  <<"A","B","C","D","E","F","G","H","I","J","K","L","M",
    "N","O","P","Q","R","S","T","U","V","W","X","Y","Z">>

LowerLetters ==
  <<"a","b","c","d","e","f","g","h","i","j","k","l","m",
    "n","o","p","q","r","s","t","u","v","w","x","y","z">>

\* char::to_lowercase: one character may lower-case to several.
CharToLowercase(c) ==
  IF \E i \in DOMAIN UpperLetters : UpperLetters[i] = c
    THEN <<LowerLetters[CHOOSE i \in DOMAIN UpperLetters : UpperLetters[i] = c]>>
    ELSE IF c = CapitalIDot THEN <<"i", CombiningDot>> ELSE <<c>>

\* The number of bytes of a character's UTF-8 encoding.
Utf8Len(c) ==
  IF c \in {BitcoinGlyph, ReplacementChar} THEN 3
  ELSE IF c \in {CapitalIDot, CombiningDot} THEN 2 ELSE 1

\* char::is_whitespace, on the characters of the model.
IsWhitespace(c) == c \in {" ", "\t"}

(***************************************************************************)
(* str operations                                                          *)
(***************************************************************************)
RECURSIVE ToLowercase(_)
ToLowercase(s) ==
  IF s = <<>> THEN <<>> ELSE CharToLowercase(Head(s)) \o ToLowercase(Tail(s))

StartsWith(s, p) == Len(s) >= Len(p) /\ SubSeq(s, 1, Len(p)) = p

\* str::find(char): the index of the first occurrence, 0 for None.
Find(s, c) ==
  IF \E i \in 1..Len(s) : s[i] = c
    THEN CHOOSE i \in 1..Len(s) : s[i] = c /\ \A j \in 1..(i - 1) : s[j] # c
    ELSE 0

Contains(s, c) == \E i \in 1..Len(s) : s[i] = c

\* str::len: the length in bytes.
RECURSIVE ByteLen(_)
ByteLen(s) == IF s = <<>> THEN 0 ELSE Utf8Len(Head(s)) + ByteLen(Tail(s))

\* &s[n..] with n a byte offset: the suffix, or a panic when n is beyond the
\* end or not on a character boundary.
Panic == <<"panic">>

RECURSIVE SliceFromByte(_, _)
SliceFromByte(s, n) ==
  IF n = 0 THEN s
  ELSE IF s = <<>> \/ Utf8Len(Head(s)) > n THEN Panic
  ELSE SliceFromByte(Tail(s), n - Utf8Len(Head(s)))

\* str::split(char): the segments between the separators, in order; a
\* string without separator is its own single segment.
RECURSIVE Split(_, _)
Split(s, c) ==
  IF Find(s, c) = 0 THEN <<s>>
  ELSE <<SubSeq(s, 1, Find(s, c) - 1)>> \o Split(SubSeq(s, Find(s, c) + 1, Len(s)), c)

RECURSIVE TrimStart(_)
TrimStart(s) ==
  IF s # <<>> /\ IsWhitespace(Head(s)) THEN TrimStart(Tail(s)) ELSE s

RECURSIVE TrimEnd(_)
TrimEnd(s) ==
  IF s # <<>> /\ IsWhitespace(s[Len(s)]) THEN TrimEnd(SubSeq(s, 1, Len(s) - 1)) ELSE s

Trim(s) == TrimEnd(TrimStart(s))

\* Mutant of StripPrefixOr: every leading occurrence removed
\* (trim_start_matches).
RECURSIVE StripAllPrefixes(_, _)
StripAllPrefixes(s, p) ==
  IF p # <<>> /\ StartsWith(s, p)
    THEN StripAllPrefixes(SubSeq(s, Len(p) + 1, Len(s)), p)
    ELSE s

\* str::strip_prefix(p).unwrap_or(s)
StripPrefixOr(s, p) ==
  IF StartsWith(s, p) THEN SubSeq(s, Len(p) + 1, Len(s)) ELSE s

\* [String]::join("")
RECURSIVE Join(_)
Join(ss) == IF ss = <<>> THEN <<>> ELSE Head(ss) \o Join(Tail(ss))

(***************************************************************************)
(* HashMap<String, String>                                                 *)
(***************************************************************************)
EmptyMap == [k \in {} |-> <<>>]

Insert(m, k, v) == [x \in DOMAIN m \cup {k} |-> IF x = k THEN v ELSE m[x]]

\* Mutant of ContainsKey: keys compared up to letter case.
ContainsKeyIgnoreCase(m, k) == \E x \in DOMAIN m : ToLowercase(x) = ToLowercase(k)

ContainsKey(m, k) == k \in DOMAIN m

(***************************************************************************)
(* Bip353Error, PaymentType, PaymentInstruction                            *)
(***************************************************************************)
ErrorKinds == {"DnsError", "InvalidAddress", "InvalidRecord", "DnssecError"}

PaymentTypes == {"OnChain", "Lightning", "LightningOffer", "Unknown"}

Err(kind, msg) == [ok |-> FALSE, kind |-> kind, msg |-> msg]

BitcoinScheme == <<"b","i","t","c","o","i","n",":">>
KeyLightning == <<"l","i","g","h","t","n","i","n","g">>
KeyLno == <<"l","n","o">>

\* Mutant of InsertPairs: the first occurrence of a key is kept
\* (entry().or_insert instead of insert).
RECURSIVE InsertPairsKeepFirst(_, _)
InsertPairsKeepFirst(parameters, pairs) ==
  IF pairs = <<>> THEN parameters
  ELSE LET pair == Head(pairs)
           eq_pos == Find(pair, "=")
       IN IF eq_pos # 0 /\ SubSeq(pair, 1, eq_pos - 1) \notin DOMAIN parameters
            THEN InsertPairsKeepFirst(Insert(parameters,
                                             SubSeq(pair, 1, eq_pos - 1),
                                             SubSeq(pair, eq_pos + 1, Len(pair))),
                                      Tail(pairs))
            ELSE InsertPairsKeepFirst(parameters, Tail(pairs))

\* The loop over query.split('&') of from_uri: pairs with '=' are inserted,
\* left to right, split at their first '='.
RECURSIVE InsertPairs(_, _)
InsertPairs(parameters, pairs) ==
  IF pairs = <<>> THEN parameters
  ELSE LET pair == Head(pairs)
           eq_pos == Find(pair, "=")
       IN IF eq_pos # 0
            THEN InsertPairs(Insert(parameters,
                                    SubSeq(pair, 1, eq_pos - 1),
                                    SubSeq(pair, eq_pos + 1, Len(pair))),
                             Tail(pairs))
            ELSE InsertPairs(parameters, Tail(pairs))

ParseParameters(uri) ==
  LET query_start == Find(uri, "?")
  IN IF query_start # 0
       THEN InsertPairs(EmptyMap, Split(SubSeq(uri, query_start + 1, Len(uri)), "&"))
       ELSE EmptyMap

\* Mutant of Classify: the "lno" arm tested before the "lightning" arm.
ClassifyLnoFirst(uri, parameters) ==
  IF KeyLno \in DOMAIN parameters THEN <<"LightningOffer", TRUE>>
  ELSE IF KeyLightning \in DOMAIN parameters THEN <<"Lightning", FALSE>>
  ELSE IF ~Contains(SubSeq(uri, 9, Len(uri)), "?") /\ Len(uri) > 8 THEN <<"OnChain", TRUE>>
  ELSE <<"Unknown", TRUE>>

\* Mutant of Classify: an offer marked as not reusable.
ClassifyOfferNotReusable(uri, parameters) ==
  IF KeyLightning \in DOMAIN parameters THEN <<"Lightning", FALSE>>
  ELSE IF KeyLno \in DOMAIN parameters THEN <<"LightningOffer", FALSE>>
  ELSE IF ~Contains(SubSeq(uri, 9, Len(uri)), "?") /\ Len(uri) > 8 THEN <<"OnChain", TRUE>>
  ELSE <<"Unknown", TRUE>>

\* "Determine payment type": <<payment_type, is_reusable>>.
Classify(uri, parameters) ==
  IF ContainsKey(parameters, KeyLightning) THEN <<"Lightning", FALSE>>
  ELSE IF ContainsKey(parameters, KeyLno) THEN <<"LightningOffer", TRUE>>
  ELSE IF SliceFromByte(uri, 8) = Panic THEN <<"panic", TRUE>>
  ELSE IF ~Contains(SliceFromByte(uri, 8), "?") /\ ByteLen(uri) > 8
    THEN <<"OnChain", TRUE>>
  ELSE <<"Unknown", TRUE>>

\* Mutant of SchemeAccepted: the scheme compared without to_lowercase.
SchemeAcceptedCaseSensitive(uri) == StartsWith(uri, BitcoinScheme)

SchemeAccepted(uri) == StartsWith(ToLowercase(uri), BitcoinScheme)

\* Mutant of StoredUri: the lower-cased copy is stored.
StoredUriLowercased(uri) == ToLowercase(uri)

\* uri.to_string(): the uri field of the instruction.
StoredUri(uri) == uri

\* A panic of the call (a slice off a character boundary); no value returned.
Panicked == [ok |-> FALSE, kind |-> "panic", msg |-> "byte index is not a char boundary"]

from_uri(uri) ==
  IF ~SchemeAccepted(uri)
    THEN Err("InvalidRecord", "URI must start with 'bitcoin:'")
    ELSE LET parameters == ParseParameters(uri)
             class == Classify(uri, parameters)
         IN IF class[1] = "panic" THEN Panicked
            ELSE [ok |-> TRUE,
                  uri |-> StoredUri(uri),
                  payment_type |-> class[1],
                  is_reusable |-> class[2],
                  parameters |-> parameters]

(***************************************************************************)
(* Resolver                                                                *)
(***************************************************************************)
\* Mutant of parse_address: more than one '@' tolerated (len() < 2).
parse_address_lenient(address) ==
  LET addr == StripPrefixOr(Trim(address), <<BitcoinGlyph>>)
      parts == Split(addr, "@")
  IN IF Len(parts) < 2
       THEN Err("InvalidAddress", "Address must be in format user@domain")
       ELSE IF Trim(parts[1]) = <<>> \/ Trim(parts[2]) = <<>>
         THEN Err("InvalidAddress", "User and domain cannot be empty")
         ELSE [ok |-> TRUE, user |-> Trim(parts[1]), domain |-> Trim(parts[2])]

parse_address(address) ==
  LET addr == StripPrefixOr(Trim(address), <<BitcoinGlyph>>)
      parts == Split(addr, "@")
  IN IF Len(parts) # 2
       THEN Err("InvalidAddress", "Address must be in format user@domain")
       ELSE IF Trim(parts[1]) = <<>> \/ Trim(parts[2]) = <<>>
         THEN Err("InvalidAddress", "User and domain cannot be empty")
         ELSE [ok |-> TRUE, user |-> Trim(parts[1]), domain |-> Trim(parts[2])]

\* format!("{}.user._bitcoin-payment.{}", user, domain)
DnsName(u, d) ==
  u \o <<".","u","s","e","r",".","_","b","i","t","c","o","i","n","-",
         "p","a","y","m","e","n","t",".">> \o d

\* String::from_utf8_lossy: every invalid byte becomes U+FFFD.
FromUtf8Lossy(bytes) ==
  [i \in 1..Len(bytes) |-> IF bytes[i] = InvalidByte THEN ReplacementChar ELSE bytes[i]]

\* One TXT record's character-strings, decoded and joined.
Concatenated(txt) == Join([i \in 1..Len(txt) |-> FromUtf8Lossy(txt[i])])

\* Mutant of RecordCandidates: the filter applied to the trimmed text.
RecordCandidatesTrimmed(txt) ==
  IF StartsWith(ToLowercase(Trim(Join([i \in 1..Len(txt) |-> FromUtf8Lossy(txt[i])]))),
                BitcoinScheme)
    THEN <<Join([i \in 1..Len(txt) |-> FromUtf8Lossy(txt[i])])>>
    ELSE <<>>

\* Mutant of RecordCandidates: every character-string of the record is
\* filtered on its own.
RecordCandidatesPerSegment(txt) ==
  SelectSeq([i \in 1..Len(txt) |-> FromUtf8Lossy(txt[i])],
            LAMBDA seg : StartsWith(ToLowercase(seg), BitcoinScheme))

\* The candidates one TXT record contributes to bitcoin_uris.
RecordCandidates(txt) ==
  IF StartsWith(ToLowercase(Concatenated(txt)), BitcoinScheme)
    THEN <<Concatenated(txt)>>
    ELSE <<>>

\* Mutant of CollectUris: a URI already collected is not pushed again.
RECURSIVE CollectUrisDedup(_)
CollectUrisDedup(records) ==
  IF records = <<>> THEN <<>>
  ELSE LET rest == CollectUrisDedup(SubSeq(records, 1, Len(records) - 1))
           last == RecordCandidates(records[Len(records)])
       IN IF last # <<>> /\ \E m \in 1..Len(rest) : rest[m] = last[1]
            THEN rest
            ELSE rest \o last

\* The loop over response.iter() of resolve: bitcoin_uris after it.
RECURSIVE CollectUris(_)
CollectUris(records) ==
  IF records = <<>> THEN <<>>
  ELSE RecordCandidates(Head(records)) \o CollectUris(Tail(records))

\* Mutant of MatchUris: with several candidates the first is parsed.
MatchUrisFirstWins(uris) ==
  IF Len(uris) = 0 THEN Err("InvalidRecord", "No Bitcoin URI found")
  ELSE from_uri(uris[1])

\* match bitcoin_uris.len() { 0 => .., 1 => .., _ => .. }
MatchUris(uris) ==
  IF Len(uris) = 0 THEN Err("InvalidRecord", "No Bitcoin URI found")
  ELSE IF Len(uris) = 1 THEN from_uri(uris[1])
  ELSE Err("InvalidRecord", "Multiple Bitcoin URIs found")

\* Mutant of FromResolveError: a DNSSEC failure told apart from the others.
FromResolveErrorDnssec(msg) ==
  IF msg = "rrsigs are not present" THEN Err("DnssecError", msg) ELSE Err("DnsError", msg)

\* impl From<ResolveError> for Bip353Error
FromResolveError(msg) == Err("DnsError", msg)

(***************************************************************************)
(* Bounds and inputs                                                       *)
(***************************************************************************)
MaxChunks == 2
MaxAddrLen == 5
MaxRecords == 2

SeqsUpTo(S, n) == UNION {[1..k -> S] : k \in 0..n}

RECURSIVE JoinWith(_, _)
JoinWith(ss, sep) ==
  IF Len(ss) = 0 THEN <<>>
  ELSE IF Len(ss) = 1 THEN ss[1]
  ELSE ss[1] \o <<sep>> \o JoinWith(Tail(ss), sep)

UriPrefixes ==
  { BitcoinScheme,
    <<"B","i","T","c","O","i","N",":">>,
    <<"B","I","T","C","O","I","N",":">>,
    <<>>,
    <<"b","i","t","c","o","i","n">>,
    <<"l","i","g","h","t","n","i","n","g",":">>,
    <<" ","b","i","t","c","o","i","n",":">>,
    <<"b",CapitalIDot,"t","c","o","i","n",":">> }

UriPaths == { <<>>, <<"a">>, <<"B","c","1"," ">> }

QueryChunks ==
  { <<>>,
    <<"k">>,
    <<"k","=">>,
    <<"k","=","v">>,
    <<"k","=","w">>,
    <<"k","=","v","=","w">>,
    <<"=","v">>,
    KeyLno,
    KeyLno \o <<"=","v">>,
    KeyLightning \o <<"=","v">>,
    <<"L","n","O","=","v">>,
    <<"L","i","G","h","T","n","I","n","G","=","v">>,
    <<"k","?","j","=","v">>,
    <<"k","=","%","2","0">> }

UriQueries ==
  {<<>>} \cup {<<"?">> \o JoinWith(cs, "&") : cs \in SeqsUpTo(QueryChunks, MaxChunks) \ {<<>>}}

UriInputs == {p \o a \o q : p \in UriPrefixes, a \in UriPaths, q \in UriQueries}

AddrAlphabet == {"a", "d", "@", " ", BitcoinGlyph}

AddrInputs == SeqsUpTo(AddrAlphabet, MaxAddrLen)

\* Resolver::new: the DNS client configured with DNSSEC validation.
ResolverNew == [validate |-> TRUE]

\* No concurrent calls; no call through the C binding.
NoCalls == <<>>
NoFfi == [pc |-> "none"]

NoResult == [pending |-> TRUE]
\* No answer yet.
NoResponse == [ok |-> FALSE, pending |-> TRUE]

(***************************************************************************)
(* PaymentInstruction::from_uri as a call                                  *)
(***************************************************************************)
InitUri ==
  /\ pc = "call"
  /\ call = "from_uri"
  /\ arg \in UriInputs
  /\ user = <<>>
  /\ domain = <<>>
  /\ queries = <<>>
  /\ response = NoResponse
  /\ bitcoin_uris = <<>>
  /\ result = NoResult
  /\ resolver = ResolverNew
  /\ calls = NoCalls
  /\ ffi = NoFfi

FromUriCall ==
  /\ pc = "call"
  /\ call = "from_uri"
  /\ result' = from_uri(arg)
  /\ pc' = "done"
  /\ UNCHANGED <<call, arg, user, domain, queries, response, bitcoin_uris>>
  /\ UNCHANGED <<resolver, calls, ffi>>

NextUri == FromUriCall

SpecUri == InitUri /\ [][NextUri]_vars

(***************************************************************************)
(* Resolver::parse_address as a call                                       *)
(***************************************************************************)
InitAddr ==
  /\ pc = "call"
  /\ call = "parse_address"
  /\ arg \in AddrInputs
  /\ user = <<>>
  /\ domain = <<>>
  /\ queries = <<>>
  /\ response = NoResponse
  /\ bitcoin_uris = <<>>
  /\ result = NoResult
  /\ resolver = ResolverNew
  /\ calls = NoCalls
  /\ ffi = NoFfi

ParseAddressCall ==
  /\ pc = "call"
  /\ call = "parse_address"
  /\ result' = parse_address(arg)
  /\ pc' = "done"
  /\ UNCHANGED <<call, arg, user, domain, queries, response, bitcoin_uris>>
  /\ UNCHANGED <<resolver, calls, ffi>>

NextAddr == ParseAddressCall

SpecAddr == InitAddr /\ [][NextAddr]_vars

(***************************************************************************)
(* Resolver::resolve and Resolver::resolve_address as calls.  The TXT      *)
(* lookup is the one suspension point: the call issues the query, the DNS  *)
(* client answers with records or with a ResolveError, and the call        *)
(* resumes with the answer.                                                *)
(***************************************************************************)
ResolveAddresses ==
  { <<"a","@","d">>,
    <<BitcoinGlyph,"a","@","d">>,
    <<BitcoinGlyph,BitcoinGlyph,"a","@","d">>,
    <<" ","a"," ","@"," ","d"," ">>,
    <<"a","@">>,
    <<"@","d">>,
    <<"a","d">>,
    <<"a","@","d","@","d">>,
    <<>> }

ResolvePairs ==
  { << <<"a">>, <<"d">> >>,
    << <<"a">>, <<>> >>,
    << <<"a">>, <<"d","-">> >> }

\* TXT records: each an ordered sequence of character-strings (byte strings).
TxtRecords ==
  { << BitcoinScheme \o <<"a">> >>,
    << <<"b","i","t">>, <<"c","o","i","n",":","a">> >>,
    << <<"x">>, BitcoinScheme \o <<"a">> >>,
    << BitcoinScheme \o <<"a">>, BitcoinScheme \o <<"d">> >>,
    << <<"B","I","T","C","O","I","N",":","?">>, KeyLno \o <<"=","v">> >>,
    << <<"v","=","s","p","f","1">> >>,
    << <<" ">> \o BitcoinScheme \o <<"a">> >>,
    << BitcoinScheme \o <<InvalidByte>> >>,
    << <<InvalidByte>>, BitcoinScheme >>,
    << BitcoinScheme \o <<"a",NulChar>> >>,
    << <<>> >> }

\* The messages of the ResolveErrors the DNS client reports.
ResolveErrors ==
  { "no record found", "request timed out", "rrsigs are not present",
    "label bytes exceed 63" }

\* An answer of txt_lookup: Ok with at least one record, or Err.
Responses ==
  {[ok |-> TRUE, records |-> rs] : rs \in SeqsUpTo(TxtRecords, MaxRecords) \ {<<>>}}
    \cup {[ok |-> FALSE, msg |-> m] : m \in ResolveErrors}

Init ==
  /\ pc = "call"
  /\ \/ call = "resolve_address" /\ arg \in ResolveAddresses
     \/ call = "resolve" /\ arg \in ResolvePairs
  /\ user = <<>>
  /\ domain = <<>>
  /\ queries = <<>>
  /\ response = NoResponse
  /\ bitcoin_uris = <<>>
  /\ result = NoResult
  /\ resolver = ResolverNew
  /\ calls = NoCalls
  /\ ffi = NoFfi

\* resolve, up to the await: the one TXT lookup is issued.
ResolveCall ==
  /\ pc = "call"
  /\ call = "resolve"
  /\ user' = arg[1]
  /\ domain' = arg[2]
  /\ queries' = Append(queries, DnsName(arg[1], arg[2]))
  /\ pc' = "await"
  /\ UNCHANGED <<call, arg, response, bitcoin_uris, result>>
  /\ UNCHANGED <<resolver, calls, ffi>>

\* resolve_address whose parse_address fails: the error is returned.
ResolveAddressReject ==
  /\ pc = "call"
  /\ call = "resolve_address"
  /\ ~parse_address(arg).ok
  /\ result' = parse_address(arg)
  /\ pc' = "done"
  /\ UNCHANGED <<call, arg, user, domain, queries, response, bitcoin_uris>>
  /\ UNCHANGED <<resolver, calls, ffi>>

\* resolve_address whose parse_address succeeds: resolve(user, domain) runs
\* up to its await.
ResolveAddressCall ==
  /\ pc = "call"
  /\ call = "resolve_address"
  /\ parse_address(arg).ok
  /\ user' = parse_address(arg).user
  /\ domain' = parse_address(arg).domain
  /\ queries' = Append(queries, DnsName(parse_address(arg).user, parse_address(arg).domain))
  /\ pc' = "await"
  /\ UNCHANGED <<call, arg, response, bitcoin_uris, result>>
  /\ UNCHANGED <<resolver, calls, ffi>>

\* The DNS client completes the lookup.
TxtLookupReturn ==
  /\ pc = "await"
  /\ \E r \in Responses : response' = r
  /\ pc' = "resume"
  /\ UNCHANGED <<call, arg, user, domain, queries, bitcoin_uris, result>>
  /\ UNCHANGED <<resolver, calls, ffi>>

\* Mutant of ResolveFail: a failed lookup is tried again.
ResolveFailRetry ==
  /\ pc = "resume"
  /\ ~response.ok
  /\ queries' = Append(queries, queries[Len(queries)])
  /\ response' = NoResponse
  /\ pc' = "await"
  /\ UNCHANGED <<call, arg, user, domain, bitcoin_uris, result>>
  /\ UNCHANGED <<resolver, calls, ffi>>

\* resolve after the await, the lookup having failed: `?` returns the error.
ResolveFail ==
  /\ pc = "resume"
  /\ ~response.ok
  /\ result' = FromResolveError(response.msg)
  /\ pc' = "done"
  /\ UNCHANGED <<call, arg, user, domain, queries, response, bitcoin_uris>>
  /\ UNCHANGED <<resolver, calls, ffi>>

\* resolve after the await, with records: filter, count, parse.
ResolveFinish ==
  /\ pc = "resume"
  /\ response.ok
  /\ bitcoin_uris' = CollectUris(response.records)
  /\ result' = MatchUris(CollectUris(response.records))
  /\ pc' = "done"
  /\ UNCHANGED <<call, arg, user, domain, queries, response>>
  /\ UNCHANGED <<resolver, calls, ffi>>

Next ==
  \/ ResolveCall
  \/ ResolveAddressReject
  \/ ResolveAddressCall
  \/ TxtLookupReturn
  \/ ResolveFail
  \/ ResolveFinish

Spec == Init /\ [][Next]_vars

(***************************************************************************)
(* Properties of PaymentInstruction::from_uri (under SpecUri).  The        *)
(* expected values are stated on the characters of the input, without the  *)
(* operators of the model above.                                           *)
(***************************************************************************)
UpperScheme == <<"B","I","T","C","O","I","N",":">>

\* s begins with "bitcoin:", each letter in either case.
BeginsWithSchemeAnyCase(s) ==
  /\ Len(s) >= 8
  /\ \A i \in 1..8 : s[i] = BitcoinScheme[i] \/ s[i] = UpperScheme[i]

\* The position of the first '?', 0 when there is none.
FirstQuestionMark(s) ==
  IF \E i \in 1..Len(s) : s[i] = "?"
    THEN CHOOSE i \in 1..Len(s) : s[i] = "?" /\ ~\E j \in 1..(i - 1) : s[j] = "?"
    ELSE 0

\* The chunks of the query string, as spans <<i, j>> of s (j = i - 1 for an
\* empty chunk): the maximal '&'-free stretches after the first '?'.
ChunkSpans(s) ==
  LET q == FirstQuestionMark(s)
  IN IF q = 0 THEN {}
     ELSE { sp \in ((q + 1)..(Len(s) + 1)) \X (q..Len(s)) :
              /\ sp[2] >= sp[1] - 1
              /\ (sp[1] = q + 1 \/ s[sp[1] - 1] = "&")
              /\ (sp[2] = Len(s) \/ s[sp[2] + 1] = "&")
              /\ \A k \in sp[1]..sp[2] : s[k] # "&" }

HasEquals(s, sp) == \E k \in sp[1]..sp[2] : s[k] = "="

FirstEquals(s, sp) ==
  CHOOSE k \in sp[1]..sp[2] : s[k] = "=" /\ \A j \in sp[1]..(k - 1) : s[j] # "="

PairSpans(s) == {sp \in ChunkSpans(s) : HasEquals(s, sp)}

SpanKey(s, sp) == SubSeq(s, sp[1], FirstEquals(s, sp) - 1)

SpanValue(s, sp) == SubSeq(s, FirstEquals(s, sp) + 1, sp[2])

ExpectedKeys(s) == {SpanKey(s, sp) : sp \in PairSpans(s)}

\* The value of the rightmost chunk carrying key k.
ExpectedValue(s, k) ==
  LET last == CHOOSE sp \in PairSpans(s) :
                /\ SpanKey(s, sp) = k
                /\ \A other \in PairSpans(s) : SpanKey(s, other) = k => other[1] <= sp[1]
  IN SpanValue(s, last)

\* The part between the 8-character scheme prefix and the first '?' (or
\* the end) is non-empty.
PathNonEmpty(s) == Len(s) > 8 /\ s[9] # "?"

\* k equals key up to the case of its letters.
SameUpToCase(k, key) ==
  /\ Len(k) = Len(key)
  /\ \A i \in 1..Len(k) :
       \/ k[i] = key[i]
       \/ \E n \in DOMAIN LowerLetters :
            {k[i], key[i]} = {LowerLetters[n], UpperLetters[n]}

Returned == pc = "done"
ReturnedOk == pc = "done" /\ result.ok

\* C2: an accepted URI without "lightning" and "lno" keys is OnChain exactly
\* when the part between the scheme prefix and the first '?' is non-empty,
\* Unknown otherwise, and reusable in both cases.
C2_OnChainIffPathNonEmpty ==
  (ReturnedOk /\ KeyLightning \notin DOMAIN result.parameters
              /\ KeyLno \notin DOMAIN result.parameters)
    => /\ result.payment_type = (IF PathNonEmpty(arg) THEN "OnChain" ELSE "Unknown")
       /\ result.is_reusable = TRUE

\* C3: a "lightning" key gives Lightning, not reusable, whatever else is
\* present; without it an "lno" key gives LightningOffer, reusable.
C3_ClassificationPrecedence ==
  ReturnedOk =>
    /\ KeyLightning \in DOMAIN result.parameters
         => result.payment_type = "Lightning" /\ result.is_reusable = FALSE
    /\ (KeyLightning \notin DOMAIN result.parameters /\ KeyLno \in DOMAIN result.parameters)
         => result.payment_type = "LightningOffer" /\ result.is_reusable = TRUE

\* A URI with an address, an "lno" key and a "lightning" key came out Lightning.
C3_Witness ==
  /\ ReturnedOk
  /\ PathNonEmpty(arg)
  /\ {KeyLightning, KeyLno} \subseteq DOMAIN result.parameters
  /\ result.payment_type = "Lightning"

\* C4: from_uri returns Ok exactly for the inputs that begin with
\* "bitcoin:" in any letter case, and InvalidRecord for every other input.
C4_OkIffBitcoinScheme ==
  Returned =>
    /\ result.ok <=> BeginsWithSchemeAnyCase(arg)
    /\ ~result.ok => result.kind = "InvalidRecord"

\* A mixed-case scheme was accepted.
C4_Witness ==
  /\ ReturnedOk
  /\ SubSeq(arg, 1, 8) = <<"B","i","T","c","O","i","N",":">>

\* C5: the uri field of the returned instruction is the input, unchanged.
C5_UriRoundTrip == ReturnedOk => result.uri = arg

\* A URI with a mixed-case scheme, upper-case letters and a trailing blank
\* in the path, and a percent-encoded value was returned as given.
C5_Witness ==
  /\ ReturnedOk
  /\ arg = <<"B","i","T","c","O","i","N",":","B","c","1"," ","?","k","=","%","2","0">>
  /\ result.uri = arg

\* C8: the parameters are those of the chunks of the query string holding
\* an '=', each split at its first '=', the rightmost chunk of a key
\* giving its value; no '?' gives the empty map.
C8_ParametersOfQuery ==
  ReturnedOk =>
    /\ DOMAIN result.parameters = ExpectedKeys(arg)
    /\ \A k \in ExpectedKeys(arg) : result.parameters[k] = ExpectedValue(arg, k)
    /\ FirstQuestionMark(arg) = 0 => result.parameters = EmptyMap

\* "?k=v=w&k=w": the later chunk overwrote the earlier one, whose value
\* kept its second '='.
C8_Witness ==
  /\ ReturnedOk
  /\ SubSeq(arg, 9, Len(arg)) = <<"?","k","=","v","=","w","&","k","=","w">>
  /\ result.parameters = [k \in {<<"k">>} |-> <<"w">>]

\* C9: keys equal to "lightning" or "lno" only up to letter case never make
\* the instruction Lightning or LightningOffer, and are stored as written.
C9_KeysMatchedExactly ==
  ReturnedOk =>
    /\ result.payment_type = "Lightning" => KeyLightning \in ExpectedKeys(arg)
    /\ result.payment_type = "LightningOffer" => KeyLno \in ExpectedKeys(arg)
    /\ \A k \in ExpectedKeys(arg) :
         (SameUpToCase(k, KeyLightning) \/ SameUpToCase(k, KeyLno))
           => k \in DOMAIN result.parameters

\* "?LiGhTnInG=v" alone: not Lightning, and the key kept its case.
C9_Witness ==
  /\ ReturnedOk
  /\ SubSeq(arg, 9, Len(arg)) = <<"?","L","i","G","h","T","n","I","n","G","=","v">>
  /\ result.payment_type = "Unknown"
  /\ DOMAIN result.parameters = {<<"L","i","G","h","T","n","I","n","G">>}

(***************************************************************************)
(* Properties of Resolver::parse_address (under SpecAddr), stated on the   *)
(* positions of the input's characters.                                    *)
(***************************************************************************)
Blank(c) == c = " " \/ c = "\t"

NonBlankPositions(s) == {i \in 1..Len(s) : ~Blank(s[i])}

AtPositions(s) == {i \in 1..Len(s) : s[i] = "@"}

Least(S) == CHOOSE x \in S : \A y \in S : x <= y
Greatest(S) == CHOOSE x \in S : \A y \in S : x >= y

\* The first position after the leading whitespace and after at most one
\* Bitcoin glyph that follows it.
BodyStart(s) ==
  LET first == Least(NonBlankPositions(s))
  IN IF s[first] = BitcoinGlyph THEN first + 1 ELSE first

\* The non-blank positions of the user side and of the domain side, for an
\* input with exactly one '@'.
UserPositions(s) ==
  {i \in NonBlankPositions(s) : BodyStart(s) <= i /\ i < Least(AtPositions(s))}

DomainPositions(s) ==
  {i \in NonBlankPositions(s) : i > Least(AtPositions(s))}

WellFormedAddress(s) ==
  /\ Cardinality(AtPositions(s)) = 1
  /\ UserPositions(s) # {}
  /\ DomainPositions(s) # {}

GlyphCount(s) == Cardinality({i \in 1..Len(s) : s[i] = BitcoinGlyph})

\* C6: parse_address returns Ok exactly when the trimmed input, less at most
\* one leading glyph, has exactly one '@' with a non-blank character on
\* each side; every other input gives InvalidAddress.
C6_OkIffWellFormed ==
  Returned =>
    /\ result.ok <=> WellFormedAddress(arg)
    /\ ~result.ok => result.kind = "InvalidAddress"

\* " a@d ": accepted, the surrounding whitespace trimmed.
C6_Witness ==
  /\ ReturnedOk
  /\ arg = <<" ","a","@","d"," ">>
  /\ result.user = <<"a">>
  /\ result.domain = <<"d">>

\* C7: the user segment is the input from the first non-blank character
\* after at most one leading glyph up to the last non-blank character
\* before the '@': further glyphs, leading or not, are kept.
C7_OnlyFirstGlyphStripped ==
  (ReturnedOk /\ WellFormedAddress(arg)) =>
    /\ result.user = SubSeq(arg, Least(UserPositions(arg)), Greatest(UserPositions(arg)))
    /\ GlyphCount(result.user) + GlyphCount(result.domain)
         >= GlyphCount(arg) - 1
    /\ arg = <<BitcoinGlyph,BitcoinGlyph,"a","@","d">> => result.user = <<BitcoinGlyph,"a">>
    /\ arg = <<"a",BitcoinGlyph,"@","d">> => result.user = <<"a",BitcoinGlyph>>

\* The glyph written twice at the start: one was stripped, one kept.
C7_Witness ==
  /\ ReturnedOk
  /\ arg = <<BitcoinGlyph,BitcoinGlyph,"a","@","d">>
  /\ result.user = <<BitcoinGlyph,"a">>

(***************************************************************************)
(* Properties of Resolver::resolve (under Spec), stated on the bytes of    *)
(* the answered TXT records.                                               *)
(***************************************************************************)
RECURSIVE LengthBefore(_, _)
\* The number of bytes of the character-strings of txt before the k-th.
LengthBefore(txt, k) ==
  IF k <= 1 THEN 0 ELSE LengthBefore(txt, k - 1) + Len(txt[k - 1])

DecodedByte(b) == IF b = "0xFF" THEN "U+FFFD" ELSE b

\* The text of a record: its character-strings one after the other, each
\* byte in the place its string and offset give it.
RecordText(txt) ==
  [n \in 1..LengthBefore(txt, Len(txt) + 1) |->
     LET k == CHOOSE j \in 1..Len(txt) :
                LengthBefore(txt, j) < n /\ n <= LengthBefore(txt, j + 1)
     IN DecodedByte(txt[k][n - LengthBefore(txt, k)])]

\* The records kept as candidates: the positions in the answer.
KeptRecords(records) ==
  {i \in 1..Len(records) : BeginsWithSchemeAnyCase(RecordText(records[i]))}

\* The m-th kept record's position.
KeptAt(records, m) ==
  CHOOSE i \in KeptRecords(records) :
    Cardinality({j \in KeptRecords(records) : j < i}) = m - 1

Answered == pc = "done" /\ response.ok

\* C1: with records answered, resolve succeeds exactly when one record is
\* kept, and then returns the instruction of that record's text; none or
\* several kept give InvalidRecord.
C1_ExactlyOneCandidate ==
  Answered =>
    LET kept == KeptRecords(response.records)
    IN /\ result.ok <=> Cardinality(kept) = 1
       /\ Cardinality(kept) # 1 => result.kind = "InvalidRecord"
       /\ Cardinality(kept) = 1 =>
            /\ result.ok
            /\ result.uri = RecordText(response.records[Least(kept)])
            /\ result = from_uri(RecordText(response.records[Least(kept)]))

\* Two records answered, one of them kept: its instruction was returned.
C1_Witness ==
  /\ Answered
  /\ Len(response.records) = 2
  /\ Cardinality(KeptRecords(response.records)) = 1
  /\ result.ok
  /\ result.uri = BitcoinScheme \o <<"a">>

\* C10: the candidates are the texts of the kept records, in the order of
\* the answer, one per record: all of a record's character-strings joined
\* before the filter, never a character-string on its own.
C10_OneCandidatePerRecord ==
  Answered =>
    /\ Len(bitcoin_uris) = Cardinality(KeptRecords(response.records))
    /\ Len(bitcoin_uris) <= Len(response.records)
    /\ \A m \in 1..Len(bitcoin_uris) :
         /\ m <= Cardinality(KeptRecords(response.records))
         /\ bitcoin_uris[m] = RecordText(response.records[KeptAt(response.records, m)])
    /\ response.records = << << <<"x">>, BitcoinScheme \o <<"a">> >> >>
         => bitcoin_uris = <<>>

\* "bit" + "coin:a" in one record: one candidate, "bitcoin:a", and success.
C10_Witness ==
  /\ Answered
  /\ response.records = << << <<"b","i","t">>, <<"c","o","i","n",":","a">> >> >>
  /\ bitcoin_uris = << BitcoinScheme \o <<"a">> >>
  /\ result.ok
  /\ result.uri = BitcoinScheme \o <<"a">>

\* The text without its leading and trailing blanks.
TrimmedText(t) ==
  IF NonBlankPositions(t) = {} THEN <<>>
  ELSE SubSeq(t, Least(NonBlankPositions(t)), Greatest(NonBlankPositions(t)))

IsCandidate(t) == \E m \in 1..Len(bitcoin_uris) : bitcoin_uris[m] = t

\* C11 as stated: a record is kept exactly when its text, trimmed of
\* whitespace, begins with "bitcoin:" in any letter case.
C11_TrimmedTextFiltered ==
  Answered =>
    \A i \in 1..Len(response.records) :
      IsCandidate(RecordText(response.records[i]))
        <=> BeginsWithSchemeAnyCase(TrimmedText(RecordText(response.records[i])))

\* C11 as amended: a record is kept exactly when its text as it is, not
\* trimmed, begins with "bitcoin:" in any letter case; a record with
\* whitespace before the scheme is dropped.
C11_UntrimmedTextFiltered ==
  Answered =>
    \A i \in 1..Len(response.records) :
      LET t == RecordText(response.records[i])
      IN /\ IsCandidate(t) <=> BeginsWithSchemeAnyCase(t)
         /\ (t # <<>> /\ Blank(t[1])) => ~IsCandidate(t)

\* " bitcoin:a" answered alone: dropped, and no Bitcoin URI found.
C11_Witness ==
  /\ Answered
  /\ response.records = << << <<" ">> \o BitcoinScheme \o <<"a">> >> >>
  /\ bitcoin_uris = <<>>
  /\ result = Err("InvalidRecord", "No Bitcoin URI found")

\* The lookup was answered with a ResolveError.
LookupFailed == "msg" \in DOMAIN response

\* C12: a lookup that fails makes resolve return DnsError with the DNS
\* client's message, and no call returns DnssecError.
C12_LookupFailureIsDnsError ==
  /\ (pc = "done" /\ LookupFailed)
       => result = [ok |-> FALSE, kind |-> "DnsError", msg |-> response.msg]
  /\ (pc = "done" /\ ~result.ok) => result.kind \in {"DnsError", "InvalidAddress", "InvalidRecord"}

\* A DNSSEC validation failure came back as DnsError with its message.
C12_Witness ==
  /\ pc = "done"
  /\ LookupFailed
  /\ response.msg = "rrsigs are not present"
  /\ result = [ok |-> FALSE, kind |-> "DnsError", msg |-> "rrsigs are not present"]

\* The name resolve_address is to look up for a well-formed address.
ExpectedQuery(s) ==
  SubSeq(s, Least(UserPositions(s)), Greatest(UserPositions(s)))
    \o <<".","u","s","e","r",".","_","b","i","t","c","o","i","n","-",
         "p","a","y","m","e","n","t",".">>
    \o SubSeq(s, Least(DomainPositions(s)), Greatest(DomainPositions(s)))

\* C13: resolve_address parses first and returns InvalidAddress without a
\* lookup when that fails; otherwise it issues one lookup, for the name of
\* the parsed pair, and never another; records are aggregated and the URI
\* parsed only once the lookup is answered.
C13_ParseThenOneLookup ==
  call = "resolve_address" =>
    /\ pc = "call" => (queries = <<>> /\ ~response.ok /\ ~LookupFailed /\ result = NoResult)
    /\ (pc # "call" /\ ~WellFormedAddress(arg)) =>
         /\ pc = "done"
         /\ queries = <<>>
         /\ response = NoResponse
         /\ ~result.ok /\ result.kind = "InvalidAddress"
    /\ (pc # "call" /\ WellFormedAddress(arg)) => queries = <<ExpectedQuery(arg)>>
    /\ pc = "await" => (response = NoResponse /\ result = NoResult)
    /\ pc = "resume" => (bitcoin_uris = <<>> /\ result = NoResult)
    /\ bitcoin_uris # <<>> => (response.ok /\ pc = "done")
    /\ Len(queries) <= 1

\* An address with the glyph: one lookup, for "a.user._bitcoin-payment.d",
\* failed, and the call ended with that one lookup.
C13_Witness ==
  /\ pc = "done"
  /\ call = "resolve_address"
  /\ arg = <<BitcoinGlyph,"a","@","d">>
  /\ LookupFailed
  /\ queries = << <<"a",".","u","s","e","r",".","_","b","i","t","c","o","i","n","-",
                   "p","a","y","m","e","n","t",".","d">> >>

(***************************************************************************)
(* Concurrent calls of Resolver::resolve on one shared Resolver (&self).   *)
(* Each call owns its arguments and locals (dns_name, response,            *)
(* bitcoin_uris); the DNS client answers each lookup to the call awaiting  *)
(* it, the answer naming the query it answers.                             *)
(***************************************************************************)
NumCalls == 2

CallIds == 1..NumCalls

ConcPairs == { << <<"a">>, <<"d">> >>, << <<"d">>, <<"a">> >> }

ConcAnswers ==
  { [ok |-> TRUE, records |-> << << BitcoinScheme \o <<"a">> >> >>],
    [ok |-> TRUE, records |-> << << BitcoinScheme \o <<"?">>, KeyLno \o <<"=","v">> >> >>],
    [ok |-> TRUE, records |-> << << BitcoinScheme \o <<"a">> >>, << BitcoinScheme \o <<"d">> >> >>],
    [ok |-> TRUE, records |-> << << <<"v","=","s","p","f","1">> >> >>],
    [ok |-> FALSE, msg |-> "request timed out"] }

\* The frame of a call that has not started.
NewCall(pair) ==
  [pc |-> "call", user |-> pair[1], domain |-> pair[2], dns_name |-> <<>>,
   response |-> NoResponse, bitcoin_uris |-> <<>>, result |-> NoResult]

InitConc ==
  /\ calls \in [CallIds -> {NewCall(pair) : pair \in ConcPairs}]
  /\ resolver = ResolverNew
  /\ pc = "concurrent"
  /\ call = "resolve"
  /\ arg = <<>>
  /\ user = <<>>
  /\ domain = <<>>
  /\ queries = <<>>
  /\ response = NoResponse
  /\ bitcoin_uris = <<>>
  /\ result = NoResult
  /\ ffi = NoFfi

ConcFrame == <<pc, call, arg, user, domain, response, bitcoin_uris, result, resolver, ffi>>

\* Call c builds its name and issues its lookup through the shared client.
ConcResolveCall(c) ==
  /\ calls[c].pc = "call"
  /\ calls' = [calls EXCEPT ![c].dns_name = DnsName(calls[c].user, calls[c].domain),
                            ![c].pc = "await"]
  /\ queries' = Append(queries, DnsName(calls[c].user, calls[c].domain))
  /\ UNCHANGED ConcFrame

\* The DNS client completes the lookup of call c.
ConcTxtLookupReturn(c) ==
  /\ calls[c].pc = "await"
  /\ \E r \in ConcAnswers :
       calls' = [calls EXCEPT ![c].response = [name |-> calls[c].dns_name] @@ r,
                              ![c].pc = "resume"]
  /\ UNCHANGED queries
  /\ UNCHANGED ConcFrame

\* Call c resumes with a ResolveError.
ConcResolveFail(c) ==
  /\ calls[c].pc = "resume"
  /\ ~calls[c].response.ok
  /\ calls' = [calls EXCEPT ![c].result = FromResolveError(calls[c].response.msg),
                            ![c].pc = "done"]
  /\ UNCHANGED queries
  /\ UNCHANGED ConcFrame

\* Mutant of ConcResolveFinish: the records are read from a slot shared by
\* the calls, holding the first answered call's records.
ConcResolveFinishShared(c) ==
  /\ calls[c].pc = "resume"
  /\ calls[c].response.ok
  /\ LET d == CHOOSE x \in CallIds :
                /\ calls[x].response.ok
                /\ \A y \in CallIds : calls[y].response.ok => x <= y
     IN calls' = [calls EXCEPT ![c].bitcoin_uris = CollectUris(calls[d].response.records),
                               ![c].result = MatchUris(CollectUris(calls[d].response.records)),
                               ![c].pc = "done"]
  /\ UNCHANGED queries
  /\ UNCHANGED ConcFrame

\* Call c resumes with records: filter, count, parse.
ConcResolveFinish(c) ==
  /\ calls[c].pc = "resume"
  /\ calls[c].response.ok
  /\ calls' = [calls EXCEPT ![c].bitcoin_uris = CollectUris(calls[c].response.records),
                            ![c].result = MatchUris(CollectUris(calls[c].response.records)),
                            ![c].pc = "done"]
  /\ UNCHANGED queries
  /\ UNCHANGED ConcFrame

NextConc ==
  \E c \in CallIds :
    \/ ConcResolveCall(c)
    \/ ConcTxtLookupReturn(c)
    \/ ConcResolveFail(c)
    \/ ConcResolveFinish(c)

SpecConc == InitConc /\ [][NextConc]_vars

\* What a call is to return for an answer, read off the answer alone.
ExpectedOutcome(answer) ==
  IF ~answer.ok THEN [ok |-> FALSE, kind |-> "DnsError", msg |-> answer.msg]
  ELSE LET kept == KeptRecords(answer.records)
       IN IF kept = {} THEN Err("InvalidRecord", "No Bitcoin URI found")
          ELSE IF Cardinality(kept) > 1 THEN Err("InvalidRecord", "Multiple Bitcoin URIs found")
          ELSE from_uri(RecordText(answer.records[Least(kept)]))

OwnName(c) ==
  calls[c].user
    \o <<".","u","s","e","r",".","_","b","i","t","c","o","i","n","-",
         "p","a","y","m","e","n","t",".">>
    \o calls[c].domain

\* C14: under every interleaving, a finished call returned what the answer
\* to its own query gives, that answer being to the name of its own
\* arguments; a call not yet answered holds no answer and no result; and
\* the Resolver is as it was constructed.
C14_CallsIndependent ==
  /\ resolver = ResolverNew
  /\ \A c \in CallIds :
       /\ calls[c].pc \in {"call", "await"}
            => (calls[c].response = NoResponse /\ calls[c].result = NoResult)
       /\ calls[c].pc \in {"resume", "done"} => calls[c].response.name = OwnName(c)
       /\ calls[c].pc = "resume" => calls[c].result = NoResult
       /\ calls[c].pc = "done" => calls[c].result = ExpectedOutcome(calls[c].response)

\* Two calls for different names, both finished, the first with an error
\* and the second with its instruction.
C14_Witness ==
  /\ calls[1].pc = "done" /\ calls[2].pc = "done"
  /\ calls[1].user # calls[2].user
  /\ ~calls[1].response.ok
  /\ calls[1].result.kind = "DnsError"
  /\ calls[2].result.ok
  /\ calls[2].result.uri = BitcoinScheme \o <<"a">>

\* C15: a returned instruction is not reusable exactly when it is
\* Lightning; OnChain, LightningOffer and Unknown are reusable.
C15_ReusableUnlessLightning ==
  ReturnedOk =>
    /\ result.payment_type \in {"OnChain", "Lightning", "LightningOffer", "Unknown"}
    /\ result.is_reusable = FALSE <=> result.payment_type = "Lightning"

\* An offer was returned, reusable.
C15_Witness ==
  /\ ReturnedOk
  /\ result.payment_type = "LightningOffer"
  /\ result.is_reusable = TRUE

\* Two kept records with the same text, at different positions.
HasDuplicateCandidates(records) ==
  \E i, j \in KeptRecords(records) :
    i < j /\ RecordText(records[i]) = RecordText(records[j])

\* C16: kept records are counted one by one: two records with the same
\* bitcoin: URI are two candidates and give InvalidRecord, as two
\* different URIs do.
C16_DuplicatesCounted ==
  Answered =>
    /\ HasDuplicateCandidates(response.records)
         => /\ Len(bitcoin_uris) >= 2
            /\ \E m, n \in 1..Len(bitcoin_uris) : m # n /\ bitcoin_uris[m] = bitcoin_uris[n]
    /\ Cardinality(KeptRecords(response.records)) >= 2
         => result = Err("InvalidRecord", "Multiple Bitcoin URIs found")

\* "bitcoin:a" answered twice: two candidates, InvalidRecord.
C16_Witness ==
  /\ Answered
  /\ response.records = << << BitcoinScheme \o <<"a">> >>, << BitcoinScheme \o <<"a">> >> >>
  /\ bitcoin_uris = << BitcoinScheme \o <<"a">>, BitcoinScheme \o <<"a">> >>
  /\ result = Err("InvalidRecord", "Multiple Bitcoin URIs found")

(***************************************************************************)
(* The C binding bip353_resolve (src/src/ffi.rs): the argument checks, the *)
(* blocking resolve_address call, and the writes through the out pointers. *)
(***************************************************************************)
FfiPointers == {"ptr", "address", "uri_out", "type_out", "is_reusable_out"}

\* The bytes behind the address pointer.
FfiAddresses ==
  { <<"a","@","d">>,
    <<BitcoinGlyph,"a","@","d">>,
    <<"a","@">>,
    <<"a",InvalidByte,"@","d">> }

Unwritten == [written |-> FALSE]
Written(v) == [written |-> TRUE, value |-> v]

\* CStr::to_str: fails on bytes that are not UTF-8.
IsUtf8(bytes) == ~Contains(bytes, InvalidByte)

\* CString::new: fails on an interior NUL.
CStringNewFails(s) == Contains(s, NulChar)

\* match instruction.payment_type { .. } of bip353_resolve
TypeStr(payment_type) ==
  CASE payment_type = "OnChain" -> <<"o","n","-","c","h","a","i","n">>
    [] payment_type = "Lightning" -> <<"l","i","g","h","t","n","i","n","g">>
    [] payment_type = "LightningOffer" ->
         <<"l","i","g","h","t","n","i","n","g","-","o","f","f","e","r">>
    [] payment_type = "Unknown" -> <<"u","n","k","n","o","w","n">>

InitFfi ==
  /\ ffi \in [pc : {"call"},
              nulls : SUBSET FfiPointers,
              address : FfiAddresses,
              runtime_ok : BOOLEAN,
              uri_out : {Unwritten},
              type_out : {Unwritten},
              is_reusable_out : {Unwritten},
              ret : {"none"}]
  /\ pc = "ffi"
  /\ call = "resolve_address"
  /\ arg = <<>>
  /\ user = <<>>
  /\ domain = <<>>
  /\ queries = <<>>
  /\ response = NoResponse
  /\ bitcoin_uris = <<>>
  /\ result = NoResult
  /\ resolver = ResolverNew
  /\ calls = NoCalls

ResolveState == <<pc, call, arg, user, domain, queries, response, bitcoin_uris, result>>

FfiReturn(frame, value) == [frame EXCEPT !.ret = value, !.pc = "returned"]

\* A null pointer among the five arguments: false.
FfiRejectNull ==
  /\ ffi.pc = "call"
  /\ ffi.nulls # {}
  /\ ffi' = FfiReturn(ffi, "false")
  /\ UNCHANGED <<ResolveState, resolver, calls>>

\* The address is not UTF-8: false.
FfiRejectUtf8 ==
  /\ ffi.pc = "call"
  /\ ffi.nulls = {}
  /\ ~IsUtf8(ffi.address)
  /\ ffi' = FfiReturn(ffi, "false")
  /\ UNCHANGED <<ResolveState, resolver, calls>>

\* Runtime::new() fails: false.
FfiRejectRuntime ==
  /\ ffi.pc = "call"
  /\ ffi.nulls = {}
  /\ IsUtf8(ffi.address)
  /\ ~ffi.runtime_ok
  /\ ffi' = FfiReturn(ffi, "false")
  /\ UNCHANGED <<ResolveState, resolver, calls>>

\* rt.block_on(resolver.resolve_address(address_str)): the call starts.
FfiBlockOn ==
  /\ ffi.pc = "call"
  /\ ffi.nulls = {}
  /\ IsUtf8(ffi.address)
  /\ ffi.runtime_ok
  /\ ffi' = [ffi EXCEPT !.pc = "blocked"]
  /\ arg' = ffi.address
  /\ pc' = "call"
  /\ UNCHANGED <<call, user, domain, queries, response, bitcoin_uris, result, resolver, calls>>

\* Err(_) => false
FfiReturnErr ==
  /\ ffi.pc = "blocked"
  /\ pc = "done"
  /\ ~result.ok
  /\ ffi' = FfiReturn(ffi, "false")
  /\ UNCHANGED <<ResolveState, resolver, calls>>

\* Mutant of FfiOutputs: the flag is stored before the URI is converted.
FfiOutputsFlagFirst(frame, instruction) ==
  LET f0 == [frame EXCEPT !.is_reusable_out = Written(instruction.is_reusable)]
  IN IF CStringNewFails(instruction.uri) THEN FfiReturn(f0, "false")
     ELSE FfiReturn([f0 EXCEPT !.uri_out = Written(instruction.uri),
                               !.type_out = Written(TypeStr(instruction.payment_type))],
                    "true")

\* The Ok(instruction) arm: the frame after its writes and its return.
FfiOutputs(frame, instruction) ==
  IF CStringNewFails(instruction.uri) THEN FfiReturn(frame, "false")
  ELSE LET f1 == [frame EXCEPT !.uri_out = Written(instruction.uri)]
       IN IF CStringNewFails(TypeStr(instruction.payment_type)) THEN FfiReturn(f1, "false")
          ELSE FfiReturn([f1 EXCEPT !.type_out = Written(TypeStr(instruction.payment_type)),
                                    !.is_reusable_out = Written(instruction.is_reusable)],
                         "true")

\* Ok(instruction) => { .. }
FfiReturnOk ==
  /\ ffi.pc = "blocked"
  /\ pc = "done"
  /\ result.ok
  /\ ffi' = FfiOutputs(ffi, result)
  /\ UNCHANGED <<ResolveState, resolver, calls>>

NextFfi ==
  \/ FfiRejectNull
  \/ FfiRejectUtf8
  \/ FfiRejectRuntime
  \/ FfiBlockOn
  \/ ResolveAddressReject
  \/ ResolveAddressCall
  \/ TxtLookupReturn
  \/ ResolveFail
  \/ ResolveFinish
  \/ FfiReturnErr
  \/ FfiReturnOk

SpecFfi == InitFfi /\ [][NextFfi]_vars

NothingWritten ==
  /\ ffi.uri_out = [written |-> FALSE]
  /\ ffi.type_out = [written |-> FALSE]
  /\ ffi.is_reusable_out = [written |-> FALSE]

ExpectedTypeString(t) ==
  IF t = "OnChain" THEN <<"o","n","-","c","h","a","i","n">>
  ELSE IF t = "Lightning" THEN <<"l","i","g","h","t","n","i","n","g">>
  ELSE IF t = "LightningOffer"
    THEN <<"l","i","g","h","t","n","i","n","g","-","o","f","f","e","r">>
  ELSE <<"u","n","k","n","o","w","n">>

HasNul(s) == \E i \in 1..Len(s) : s[i] = "U+0000"

\* A cause of failure the binding has met.
FfiMustFail ==
  \/ ffi.nulls # {}
  \/ \E i \in 1..Len(ffi.address) : ffi.address[i] = "0xFF"
  \/ ~ffi.runtime_ok
  \/ (pc = "done" /\ ~result.ok)
  \/ (pc = "done" /\ result.ok /\ HasNul(result.uri))

\* C17: bip353_resolve writes all three outputs or none: nothing is written
\* before it returns or when it returns false, which it does for every
\* cause of failure; when it returns true the three outputs hold the URI,
\* the type string and the flag of the resolved instruction.
C17_OutputsAllOrNothing ==
  /\ ffi.ret # "true" => NothingWritten
  /\ (ffi.pc = "returned" /\ FfiMustFail) => ffi.ret = "false"
  /\ ffi.ret = "true" =>
       /\ pc = "done" /\ result.ok
       /\ ffi.uri_out = [written |-> TRUE, value |-> result.uri]
       /\ ffi.type_out = [written |-> TRUE, value |-> ExpectedTypeString(result.payment_type)]
       /\ ffi.is_reusable_out = [written |-> TRUE, value |-> result.is_reusable]

\* A resolved URI with a NUL byte: false, nothing written.
C17_Witness ==
  /\ ffi.ret = "false"
  /\ pc = "done"
  /\ result.ok
  /\ HasNul(result.uri)
  /\ NothingWritten

====
